---------------------------- MODULE Spec2Model ----------------------------
(***************************************************************************)
(* Model of steam_explorer.py: the paginated review fetch loop             *)
(* (get_user_reviews / get_user_reviews_helper), the form body of main()   *)
(* that calls it and renders the result, and the catalog search            *)
(* (get_steam_app_id).                                                     *)
(*                                                                         *)
(* The module-level dict `params` is built once when the module body runs  *)
(* (lines 8-14) and is the object main() passes to get_user_reviews at     *)
(* line 136; the model keeps it for as long as the module lives, like      *)
(* games_df ("Do this once", line 26).                                     *)
(*                                                                         *)
(* A review is modelled by its voted_up flag; a page is a sequence of      *)
(* reviews.  Strings that are searched are sequences of one-character      *)
(* strings.                                                                *)
(***************************************************************************)
EXTENDS Integers, Sequences, FiniteSets, TLC

VARIABLES
    params,        \* the module-level dict `params` (lines 8-14)
    pc,            \* position of the shell: "GameChosen", "Fetching", "Displaying", "Error"
    steam_app_id,  \* argument of the running / last get_user_reviews call
    max_revs,      \* argument max_revs of the running / last call
    revs,          \* the accumulator `revs` of get_user_reviews
    fetch,         \* outcome of the call: "none", "running", "returned", "raised"
    reviews,       \* main's local `reviews` (line 136); <<>> until the call returns
    log,           \* history: the first exchanges (request, response) of this call
    unlogged,      \* history: TRUE when an exchange of this call is not in log
    shown,         \* what this run of the form body has written to the page
    search_str,    \* the text of the "Search game" input (line 123)
    steam_ids      \* outcome of get_steam_app_id(games_df, search_str) (line 124)

vars == <<params, pc, steam_app_id, max_revs, revs, fetch, reviews, log, unlogged, shown,
          search_str, steam_ids>>


----------------------------------------------------------------------------
(* Bounds *)

\* reviews a page can carry: the value of params['num_per_page'], scaled down
NumPerPage == 3
\* max_revs ranges over 1..MaxCount
MaxCount == 4
\* the first MaxLog exchanges of a call are recorded in log
MaxLog == 3
\* queries are the strings of at most MaxQuery characters
MaxQuery == 3

----------------------------------------------------------------------------
(* Values *)

\* response.get("cursor") when the key is absent
None == "<None>"

\* the token the server gives for the page after the one asked for with `sent`
ServerCursor(sent) == IF sent = "AAA" THEN "BBB" ELSE "AAA"

\* everything response.get("cursor") can be in the answer to a request sent with `sent`
AnyCursor(sent) == {ServerCursor(sent), "", None}

RECURSIVE SeqsUpTo(_, _)
SeqsUpTo(S, n) ==
    IF n = 0 THEN {<<>>}
    ELSE LET shorter == SeqsUpTo(S, n - 1)
         IN  shorter \cup {Append(s, x) : s \in {t \in shorter : Len(t) = n - 1}, x \in S}

\* the "reviews" list of one response: at most num_per_page reviews
Pages == SeqsUpTo(BOOLEAN, NumPerPage)

\* what the server can answer to one GET sent with cursor `sent`
Responses(sent) ==
    {[status |-> 200, json_ok |-> TRUE, cursor |-> c, reviews |-> rv] :
        c \in AnyCursor(sent), rv \in Pages}
    \cup {[status |-> 200, json_ok |-> FALSE, cursor |-> None, reviews |-> <<>>]}
    \cup {[status |-> 500, json_ok |-> FALSE, cursor |-> None, reviews |-> <<>>]}

\* the rows of steam-top-1000.json, in file order
Catalog ==
    << [appid |-> 10, name |-> <<"H", "a", "l", "f">>],
       [appid |-> 20, name |-> <<"a", ".", "b">>] >>

\* characters a query is made of
QueryChars == {"a", "H", ".", "(", "*"}

Queries == SeqsUpTo(QueryChars, MaxQuery)

----------------------------------------------------------------------------
(* load_games_df and get_steam_app_id *)

\* str.lower() on one character
LowerChar(ch) ==
    CASE ch = "H" -> "h"
      [] ch = "L" -> "l"
      [] ch = "A" -> "a"
      [] OTHER -> ch

lower(str) == [i \in 1..Len(str) |-> LowerChar(str[i])]

\* line 23: every row gets name_lowercase
load_games_df ==
    [i \in 1..Len(Catalog) |->
        [appid |-> Catalog[i].appid, name |-> Catalog[i].name,
         name_lowercase |-> lower(Catalog[i].name)]]

\* line 27
games_df == load_games_df

AppIds == {games_df[i].appid : i \in 1..Len(games_df)}

\* str.contains(pat) compiles pat as a regular expression (regex=True is the
\* default): re.compile rejects an unclosed "(" and a "*" with nothing to repeat
RegexError(pat) ==
    \E i \in 1..Len(pat) :
        \/ pat[i] = "("
        \/ pat[i] = "*" /\ (i = 1 \/ pat[i - 1] = "*")

\* one pattern character against one text character: "." matches any
CharMatches(p, c) == p = "." \/ p = c

\* the pattern from position i matches the text from position j on
RECURSIVE MatchAt(_, _, _, _)
MatchAt(pat, i, str, j) ==
    IF i > Len(pat) THEN TRUE
    ELSE LET here == j <= Len(str) /\ CharMatches(pat[i], str[j])
         IN  IF i + 1 <= Len(pat) /\ pat[i + 1] = "*"
             THEN MatchAt(pat, i + 2, str, j) \/ (here /\ MatchAt(pat, i, str, j + 1))
             ELSE here /\ MatchAt(pat, i + 1, str, j + 1)

\* re.search(pat, str)
RegexSearch(pat, str) == \E j \in 1..(Len(str) + 1) : MatchAt(pat, 1, str, j)

\* df[["name", "appid"]]
NameAndId(row) == [name |-> row.name, appid |-> row.appid]

RECURSIVE Filter(_, _)
Filter(df, pat) ==
    IF df = <<>> THEN <<>>
    ELSE (IF RegexSearch(pat, Head(df).name_lowercase) THEN <<NameAndId(Head(df))>> ELSE <<>>)
         \o Filter(Tail(df), pat)

\* lines 71-73
get_steam_app_id(df, q) ==
    IF RegexError(lower(q))
    THEN [error |-> TRUE, rows |-> <<>>]
    ELSE [error |-> FALSE, rows |-> Filter(df, lower(q))]

----------------------------------------------------------------------------
(* get_user_reviews_helper and get_user_reviews *)

\* the dict built at module level
InitParams ==
    [json |-> 1, language |-> "english", cursor |-> "*",
     num_per_page |-> NumPerPage, filter |-> "recent"]

\* line 38: the status check of the helper
BadStatus(status) == status # 200

\* a helper that reports a bad status and goes on with an empty dict
HelperNoRaise(r) ==
    IF BadStatus(r.status)
    THEN [raised |-> FALSE, written |-> <<"status_message">>, cursor |-> None, reviews |-> <<>>]
    ELSE IF ~r.json_ok
    THEN [raised |-> TRUE, written |-> <<"exception_message">>, cursor |-> None, reviews |-> <<>>]
    ELSE [raised |-> FALSE, written |-> <<>>, cursor |-> r.cursor, reviews |-> r.reviews]

\* the helper on a response r: what it writes, whether it raises, what it returns
get_user_reviews_helper(r) ==
    IF BadStatus(r.status)
    THEN [raised |-> TRUE, written |-> <<"status_message">>, cursor |-> None, reviews |-> <<>>]
    ELSE IF ~r.json_ok
    THEN [raised |-> TRUE, written |-> <<"exception_message">>, cursor |-> None, reviews |-> <<>>]
    ELSE [raised |-> FALSE, written |-> <<>>, cursor |-> r.cursor, reviews |-> r.reviews]

\* a loop that stops only once the list is longer than max_revs + 1
LoopCondLate(n, m) == n <= m + 1

\* line 60: the loop condition
LoopCond(n, m) == n < m - 1

\* a test for the missing key only
NotCursorNoneOnly(c) == c = None

\* line 63: `not cursor`
NotCursor(c) == c = None \/ c = ""

\* a loop that forgets to move the cursor
SetCursorForgotten(p, c) == p

\* line 67: params['cursor'] = cursor
SetCursor(p, c) == [p EXCEPT !.cursor = c]

\* line 65: revs.extend(response["reviews"])
Extend(acc, page) == acc \o page

\* the history entry of one exchange: what was sent and what came back
Exchange(r) == [app |-> steam_app_id, sent |-> params, resp |-> r]

Record(r) ==
    /\ log' = IF Len(log) < MaxLog THEN Append(log, Exchange(r)) ELSE log
    /\ unlogged' = (unlogged \/ Len(log) >= MaxLog)

----------------------------------------------------------------------------
(* The rest of the form body: parse_reviews, playtime_hist, the charts *)

\* line 138: pos and neg
Liked(rs) == SelectSeq(rs, LAMBDA v : v)
Disliked(rs) == SelectSeq(rs, LAMBDA v : ~v)

\* a form body that draws each histogram as soon as playtime_hist returns it
RenderOutputEager(rs) ==
    IF rs = <<>> THEN <<"exception">>
    ELSE IF Liked(rs) = <<>> THEN <<"exception">>
    ELSE IF Disliked(rs) = <<>> THEN <<"liked_summary", "liked_hist", "exception">>
    ELSE <<"liked_summary", "liked_hist", "disliked_summary", "disliked_hist", "swarm_chart">>

\* what lines 137-154 write for the list rs returned by get_user_reviews, ending with
\* "exception" when a call raises: parse_reviews on an empty list (the frame has no
\* playtime column, line 87), playtime_hist on an empty subset (lines 96-99, before
\* its st.write at line 105)
RenderOutput(rs) ==
    IF rs = <<>> THEN <<"exception">>
    ELSE IF Liked(rs) = <<>> THEN <<"exception">>
    ELSE IF Disliked(rs) = <<>> THEN <<"liked_summary", "exception">>
    ELSE <<"liked_summary", "disliked_summary", "swarm_chart", "liked_hist", "disliked_hist">>

Raises(out) == out # <<>> /\ out[Len(out)] = "exception"

----------------------------------------------------------------------------
(* Actions *)

Init ==
    /\ params = InitParams
    /\ pc = "GameChosen"
    /\ steam_app_id = games_df[1].appid
    /\ max_revs = 1
    /\ revs = <<>>
    /\ fetch = "none"
    /\ reviews = <<>>
    /\ log = <<>>
    /\ unlogged = FALSE
    /\ shown = <<>>
    /\ search_str = <<>>
    /\ steam_ids = get_steam_app_id(games_df, <<>>)

\* lines 123-124: the search text changes and the catalog is searched
Search(q) ==
    /\ pc # "Fetching"
    /\ search_str' = q
    /\ steam_ids' = get_steam_app_id(games_df, q)
    /\ UNCHANGED <<params, pc, steam_app_id, max_revs, revs, fetch, reviews, log,
                   unlogged, shown>>

\* lines 125-136: a game and a count are chosen and the form is submitted; the
\* score line is written and get_user_reviews is entered
Submit(a, m) ==
    /\ pc # "Fetching"
    /\ pc' = "Fetching"
    /\ steam_app_id' = a
    /\ max_revs' = m
    /\ revs' = <<>>
    /\ fetch' = "running"
    /\ reviews' = <<>>
    /\ log' = <<>>
    /\ unlogged' = FALSE
    /\ shown' = <<"score_line">>
    /\ UNCHANGED <<params, search_str, steam_ids>>

\* get_user_reviews returns rs to main, which renders it (lines 137-154)
ReturnAndRender(rs) ==
    /\ fetch' = "returned"
    /\ reviews' = rs
    /\ shown' = shown \o RenderOutput(rs)
    /\ pc' = IF Raises(RenderOutput(rs)) THEN "Error" ELSE "Displaying"

\* line 60 is false: the loop ends without a request
LoopExit ==
    /\ pc = "Fetching"
    /\ ~LoopCond(Len(revs), max_revs)
    /\ ReturnAndRender(revs)
    /\ UNCHANGED <<params, steam_app_id, max_revs, revs, log, unlogged, search_str, steam_ids>>

\* lines 61-67: a page with a cursor is appended and the cursor is kept
PageAppended(r) ==
    /\ pc = "Fetching"
    /\ LoopCond(Len(revs), max_revs)
    /\ ~get_user_reviews_helper(r).raised
    /\ ~NotCursor(get_user_reviews_helper(r).cursor)
    /\ revs' = Extend(revs, get_user_reviews_helper(r).reviews)
    /\ params' = SetCursor(params, get_user_reviews_helper(r).cursor)
    /\ Record(r)
    /\ UNCHANGED <<pc, steam_app_id, max_revs, fetch, reviews, shown, search_str, steam_ids>>

\* lines 61-64: a page without a cursor ends the loop
EndOfPages(r) ==
    /\ pc = "Fetching"
    /\ LoopCond(Len(revs), max_revs)
    /\ ~get_user_reviews_helper(r).raised
    /\ NotCursor(get_user_reviews_helper(r).cursor)
    /\ Record(r)
    /\ ReturnAndRender(revs)
    /\ UNCHANGED <<params, steam_app_id, max_revs, revs, search_str, steam_ids>>

\* lines 38-46: the helper writes a message and raises; nothing catches it
FetchFailure(r) ==
    /\ pc = "Fetching"
    /\ LoopCond(Len(revs), max_revs)
    /\ get_user_reviews_helper(r).raised
    /\ Record(r)
    /\ fetch' = "raised"
    /\ shown' = shown \o get_user_reviews_helper(r).written \o <<"exception">>
    /\ pc' = "Error"
    /\ UNCHANGED <<params, steam_app_id, max_revs, revs, reviews, search_str, steam_ids>>

Next ==
    \/ \E a \in AppIds, m \in 1..MaxCount : Submit(a, m)
    \/ LoopExit
    \/ \E r \in Responses(params.cursor) : PageAppended(r)
    \/ \E r \in Responses(params.cursor) : EndOfPages(r)
    \/ \E r \in Responses(params.cursor) : FetchFailure(r)

\* the fetch-and-render cycles
Spec == Init /\ [][Next]_vars

\* the loop is single-threaded and blocking: it always takes its next step
SpecFair == Spec /\ WF_vars(Next)

NextSearch == \E q \in Queries : Search(q)

\* the searches
SpecSearch == Init /\ [][NextSearch]_vars

----------------------------------------------------------------------------
(* Vocabulary of the properties *)

\* the response was a parsed 200
Parsed(r) == r.status = 200 /\ r.json_ok

\* the response carries a non-empty cursor
HasCursor(r) == Parsed(r) /\ r.cursor # None /\ r.cursor # ""

\* the response is a page whose cursor is absent or empty
CursorMissing(r) == Parsed(r) /\ (r.cursor = None \/ r.cursor = "")

\* log holds every exchange of the call
Complete == ~unlogged

\* the reviews, in request order, of the logged pages that carried a cursor
RECURSIVE PagesWithCursor(_)
PagesWithCursor(l) ==
    IF l = <<>> THEN <<>>
    ELSE (IF HasCursor(Head(l).resp) THEN Head(l).resp.reviews ELSE <<>>)
         \o PagesWithCursor(Tail(l))

\* q occurs in str as a literal substring
Contains(str, q) ==
    \E j \in 0..(Len(str) - Len(q)) : \A i \in 1..Len(q) : str[j + i] = q[i]

RECURSIVE LiteralFilter(_, _)
LiteralFilter(df, q) ==
    IF df = <<>> THEN <<>>
    ELSE (IF Contains(lower(Head(df).name), q) THEN <<NameAndId(Head(df))>> ELSE <<>>)
         \o LiteralFilter(Tail(df), q)

Charts == {"swarm_chart", "liked_hist", "disliked_hist"}
ErrorOutput == {"status_message", "exception_message", "exception"}
Shown(x) == \E i \in 1..Len(shown) : shown[i] = x

----------------------------------------------------------------------------
(* Properties *)

\* C1: the list get_user_reviews returns is at most max_revs plus one page
\* (num_per_page) long, when no page carries more than num_per_page reviews.
C1_BoundedOvershoot ==
    fetch = "returned" => Len(reviews) <= max_revs + NumPerPage

\* C1 witness: a call has returned more than max_revs reviews
C1_Overshoot ==
    fetch = "returned" /\ Len(reviews) > max_revs

\* C2: a first page with a cursor and N reviews, then a second page without a
\* cursor and M reviews: exactly two requests are made and N + M reviews returned.
C2_LastPageKept ==
    (/\ fetch = "returned"
     /\ Len(log) >= 2
     /\ HasCursor(log[1].resp)
     /\ CursorMissing(log[2].resp))
    => (/\ Len(log) = 2
        /\ Complete
        /\ Len(reviews) = Len(log[1].resp.reviews) + Len(log[2].resp.reviews))

\* C3: a request answered with a status other than 200 ends the call with an
\* error: nothing is returned to main, not even the reviews of earlier pages, and
\* no request follows it.
C3_BadStatusIsTerminal ==
    \A k \in 1..Len(log) :
        log[k].resp.status # 200
        => (/\ fetch = "raised"
            /\ pc = "Error"
            /\ reviews = <<>>
            /\ k = Len(log)
            /\ Complete)

\* C3 witness: a call failed on its second request, after a page of reviews
C3_FailedAfterAPage ==
    /\ fetch = "raised"
    /\ Len(log) = 2
    /\ log[2].resp.status # 200
    /\ revs # <<>>

C5_AtLeastMax ==
    (/\ fetch = "returned"
     /\ Complete
     /\ \A k \in 1..Len(log) : HasCursor(log[k].resp))
    => Len(reviews) >= max_revs

\* C6: a response whose cursor is absent or empty is the last exchange of its
\* call: no request follows it and the call returns.
C6_StopAtMissingCursor ==
    \A k \in 1..Len(log) :
        CursorMissing(log[k].resp)
        => (/\ fetch = "returned"
            /\ k = Len(log)
            /\ Complete)

\* C6 witness: a call returned on an empty cursor while the loop condition still held
C6_StoppedByEmptyCursor ==
    /\ fetch = "returned"
    /\ Len(log) = 2
    /\ log[2].resp.cursor = ""
    /\ Parsed(log[2].resp)
    /\ Len(revs) < max_revs - 1

\* C7 as stated: a cycle that fails shows the error and nothing else.
C7_OnlyErrorShown ==
    pc = "Error" => \A i \in 1..Len(shown) : shown[i] \in ErrorOutput

\* C7 amended: a cycle that fails shows no chart and no summary of the disliked
\* subset; it shows the score line, written before the fetch, and it shows the
\* summary of the liked subset exactly when it fails on an empty disliked subset.
C7_FailedCycleOutput ==
    pc = "Error"
    => (/\ \A c \in Charts : ~Shown(c)
        /\ ~Shown("disliked_summary")
        /\ shown[1] = "score_line"
        /\ Shown("liked_summary")
           <=> (fetch = "returned" /\ Liked(reviews) # <<>> /\ Disliked(reviews) = <<>>))

\* C7 witness: a cycle failed on an empty disliked subset after the liked summary
C7_FailedAfterLikedSummary ==
    /\ pc = "Error"
    /\ fetch = "returned"
    /\ Shown("liked_summary")
    /\ Disliked(reviews) = <<>>

\* C8: every search raises no error and returns, in catalog order, the rows
\* whose lowercase name contains the lowercase query as a literal substring.
C8_LiteralSubstring ==
    steam_ids = [error |-> FALSE, rows |-> LiteralFilter(games_df, lower(search_str))]

\* C9: every call of get_user_reviews ends, by returning or by raising.
C9_FetchTerminates ==
    (fetch = "running") ~> (fetch # "running")

\* C10: in one call, request k+1 is sent with the cursor of response k, the app
\* id and the other parameters are those of request k, and the list returned is
\* the concatenation, in request order, of the pages that carried a cursor.
C10_CursorThreaded ==
    /\ \A k \in 1..(Len(log) - 1) :
        /\ log[k + 1].sent.cursor = log[k].resp.cursor
        /\ [log[k + 1].sent EXCEPT !.cursor = "*"] = [log[k].sent EXCEPT !.cursor = "*"]
        /\ log[k + 1].app = log[k].app
    /\ \A k \in 1..Len(log) :
        /\ log[k].app = steam_app_id
        /\ [log[k].sent EXCEPT !.cursor = "*"] = InitParams
    /\ (fetch = "returned" /\ Complete) => reviews = PagesWithCursor(log)

\* C10 witness: a call returned the reviews of three pages, each with a cursor
C10_ThreePagesReturned ==
    /\ fetch = "returned"
    /\ Complete
    /\ Len(log) = 3
    /\ \A k \in 1..3 : HasCursor(log[k].resp) /\ log[k].resp.reviews # <<>>

=============================================================================
